---- MODULE Spec2Model ----
(***************************************************************************)
(* A model of sonnerie's metadata/transaction layer (src/src/metadata.rs). *)
(*                                                                         *)
(* The metadata store is an SQLite database in WAL mode: `disk` is its     *)
(* committed content, and every open Transaction has a connection of its   *)
(* own whose "begin" is a deferred BEGIN: the read snapshot is taken by    *)
(* the first statement that reads, the write lock by the first statement   *)
(* that writes (SQLITE_BUSY when another connection holds it or when the   *)
(* snapshot is stale; no busy handler is installed, and the code unwraps   *)
(* the result, so that is a panic).                                        *)
(*                                                                         *)
(* All u64 quantities are modelled at a reduced width of 8 bits, so a      *)
(* timestamp occupies 1 byte of a row instead of 8, and the preferred      *)
(* block size is 4 bytes instead of 4096.                                  *)
(***************************************************************************)
EXTENDS Integers, Sequences, FiniteSets, TLC

(***************************************************************************)
(* Bounds of the model.                                                    *)
(***************************************************************************)
\* timestamps a generator produces are drawn from 0..MaxTs
MaxTs == 1
\* a generator yields at most MaxRows rows in one insert_into_series call
MaxRows == 2
\* number of transactions begun in one run
MaxTx == 2
\* size of the block file, in bytes: calls that would write past it are left out
FileSize == 8
\* number of insert_into_series calls in one run
MaxCalls == 2
\* number of lines in a text stream
MaxLines == 3

(***************************************************************************)
(* Integer widths.                                                         *)
(***************************************************************************)
\* 2^w for the width w of u64/i64 (w = 8 here, 64 in the source)
U64Modulus == 256

U64Max == U64Modulus - 1

I64Min == -(U64Modulus \div 2)

I64Max == (U64Modulus \div 2) - 1

\* `x as i64` of a u64
AsI64(u) == IF u > I64Max THEN u - U64Modulus ELSE u

\* `v as u64` of an i64
AsU64(v) == v % U64Modulus

\* two's complement wrap-around of a mathematical integer into i64
WrapI64(v) == ((v - I64Min) % U64Modulus) + I64Min

\* to_sqlite without the shift by i64::MIN: the plain cast
to_sqlite_cast(x) == AsI64(x)

\* Timestamp::to_sqlite: (self.0 as i64).wrapping_add(i64::MIN)
to_sqlite(x) == WrapI64(AsI64(x) + I64Min)

\* Timestamp::from_sqlite: Timestamp(v.wrapping_sub(i64::MIN) as u64)
from_sqlite(v) == AsU64(WrapI64(v - I64Min))

\* number of bytes of the timestamp prefix of a row (&sample[0..8] in the source)
TsBytes == 1

Max(a, b) == IF a >= b THEN a ELSE b

RECURSIVE Pow(_, _)
Pow(b, n) == IF n = 0 THEN 1 ELSE b * Pow(b, n - 1)

\* BigEndian::write_u64, as the generator encodes a row's timestamp
BigEndianWrite(ts) == [i \in 1..TsBytes |-> (ts \div Pow(256, TsBytes - i)) % 256]

RECURSIVE BigEndianAcc(_, _, _)
BigEndianAcc(bytes, i, acc) ==
  IF i > TsBytes THEN acc ELSE BigEndianAcc(bytes, i + 1, acc * 256 + bytes[i])

\* BigEndian::read_u64(&sample[0..8])
BigEndianRead(sample) == BigEndianAcc(sample, 1, 0)

(***************************************************************************)
(* Option<T>: None is <<>>, Some(v) is <<v>>.                              *)
(***************************************************************************)
None == <<>>

Some(v) == <<v>>

(***************************************************************************)
(* Row formats (row_format.rs is not part of the sources at hand).         *)
(***************************************************************************)
Names == {"a", "b"}

Formats == {"f2", "f3", "f4"}

\* the allocation unit of new blocks (the default, 4096 in the source's scale)
DefaultBlockSize == 4

\* RowFormat::row_size: the timestamp prefix and the format's payload
row_size(format) ==
  TsBytes + (IF format = "f2" THEN 1 ELSE IF format = "f3" THEN 2 ELSE 3)

\* RowFormat::preferred_block_size: the default, or one row if that is larger
preferred_block_size(format) == Max(DefaultBlockSize, row_size(format))

\* the payload byte values a generator writes
Payloads == {9}

\* a row as the generator produces it: its timestamp and the byte its payload repeats
Row == [ts : 0..MaxTs, p : Payloads]

\* what the generator appends to the buffer for row r of a series of row size R
RowBytes(r, R) == BigEndianWrite(r.ts) \o [i \in 1..(R - TsBytes) |-> r.p]

\* what the output callback of read_series receives for a stored row
Emitted(r, R) == [ts |-> r.ts, payload |-> [i \in 1..(R - TsBytes) |-> r.p]]

RowSeqs == UNION {[1..n -> Row] : n \in 0..MaxRows}

(***************************************************************************)
(* State.                                                                  *)
(***************************************************************************)
\* the transactions of a run, numbered in the order they begin
Txns == 1..MaxTx

VARIABLES
  disk,             \* committed content of the metadata database
  file,             \* the block file: offset -> byte
  flushed,          \* the block file as of its last commit barrier (flush, fsync)
  facade,           \* Db: next_offset and generation handed to new transactions
  tx,               \* the Transaction objects
  ret,              \* the last call and how it ended
  overflow_checks,  \* the build: "on" panics on integer overflow, "off" wraps;
                    \* "unset" until the first overflow shows which it is
  calls,            \* insert_into_series calls made so far
  stream            \* a run of add_from_stream or add_from_stream_with_fmt

vars == <<disk, file, flushed, facade, tx, ret, overflow_checks, calls, stream>>

\* series: the series table in series_id order (series_id = index);
\* blocks: the series_blocks table;
\* rows: per series, the rows accepted so far (history, not stored by the code)
EmptyDb == [series |-> <<>>, blocks |-> {}, rows |-> <<>>]

\* a Transaction that has not begun yet
IdleTx ==
  [st |-> "idle", writing |-> FALSE, next_offset |-> 0, generation |-> 0,
   snap |-> FALSE, view |-> EmptyDb, locked |-> FALSE,
   failed |-> FALSE, atBegin |-> EmptyDb]

\* a Transaction that was committed or dropped
ClosedTx == [IdleTx EXCEPT !.st = "closed"]

\* op: the call; t: its transaction; res: how it ended; sid: the series of
\* insert_into_series, the id create_series returns (0 for None); for
\* insert_into_series, consumed: the number of rows pulled from the generator,
\* rounds: the number of rounds of the loop that wrote a buffer
\* arg, val: the argument and the value of a call of a Timestamp conversion
NoRet ==
  [op |-> "none", t |-> 0, res |-> "", sid |-> 0, consumed |-> 0, rounds |-> 0,
   arg |-> 0, val |-> 0]

\* no text stream is being read
NoStream == [fn |-> "none", nocheck |-> FALSE, recorded |-> <<>>, input |-> <<>>, line |-> 0, key_format_identified |-> "", added |-> <<>>, result |-> ""]

Init ==
  /\ disk = EmptyDb
  /\ file = [i \in 0..(FileSize - 1) |-> 0]
  /\ flushed = file
  /\ facade = [next_offset |-> 0, generation |-> 0]
  /\ tx = [t \in Txns |-> IdleTx]
  /\ ret = NoRet
  /\ overflow_checks = "unset"
  /\ calls = 0
  /\ stream = NoStream

(***************************************************************************)
(* SQLite's transaction discipline, per connection.                        *)
(***************************************************************************)
\* what a statement of transaction t reads: its snapshot or working copy if it
\* has one, else the committed content (which then becomes its snapshot)
View(t) == IF tx[t].snap THEN tx[t].view ELSE disk

OtherLocked(t) == \E u \in Txns \ {t} : tx[u].locked

\* whether a writing statement of t gets the write lock
CanWrite(t) == tx[t].locked \/ (~OtherLocked(t) /\ View(t) = disk)

(***************************************************************************)
(* The block file (blocks.rs is not part of the sources at hand).          *)
(***************************************************************************)
\* Blocks::write(offset, buffer)
BlocksWrite(f, offset, buffer) ==
  [i \in DOMAIN f |->
     IF i >= offset /\ i < offset + Len(buffer) THEN buffer[i - offset + 1] ELSE f[i]]

\* Blocks::read(offset, &mut block_data[..]) for a buffer of `size` bytes
BlocksRead(f, offset, size) == [i \in 1..size |-> f[offset + i - 1]]

(***************************************************************************)
(* Beginning and ending transactions.                                      *)
(***************************************************************************)
\* Db::read_transaction: Metadata::open(next_offset, ..).as_read_transaction()
as_read_transaction(t) ==
  /\ tx[t].st = "idle"
  /\ \A u \in Txns : u < t => tx[u].st # "idle"
  /\ tx' = [tx EXCEPT ![t] =
       [IdleTx EXCEPT !.st = "open", !.writing = FALSE,
                      !.next_offset = facade.next_offset, !.generation = 1,
                      !.atBegin = disk]]
  /\ ret' = [NoRet EXCEPT !.op = "begin_read", !.t = t]
  /\ UNCHANGED <<disk, file, flushed, facade, overflow_checks, calls, stream>>

\* Db::write_transaction:
\* Metadata::open(next_offset, ..).as_write_transaction(generation + 1, db)
as_write_transaction(t) ==
  /\ tx[t].st = "idle"
  /\ \A u \in Txns : u < t => tx[u].st # "idle"
  /\ tx' = [tx EXCEPT ![t] =
       [IdleTx EXCEPT !.st = "open", !.writing = TRUE,
                      !.next_offset = facade.next_offset,
                      !.generation = facade.generation + 1]]
  /\ ret' = [NoRet EXCEPT !.op = "begin_write", !.t = t]
  /\ UNCHANGED <<disk, file, flushed, facade, overflow_checks, calls, stream>>

\* Metadata::last_generation: "select generation from series order by
\* generation desc limit 1", 0 when the query has no row
last_generation(db) ==
  IF Len(db.series) = 0 THEN 0
  ELSE LET gens == {db.series[i].generation : i \in 1..Len(db.series)}
       IN CHOOSE g \in gens : \A x \in gens : x <= g

\* Db::committing(&metadata): the facade records the writer's cursor and generation
committing(metadata) ==
  [next_offset |-> metadata.next_offset, generation |-> metadata.generation]

\* Blocks::commit(): everything written to the block file is flushed and synced
BlocksCommit(f) == f

\* Transaction::commit
commit(t) ==
  /\ tx[t].st = "open"
  /\ flushed' = IF tx[t].writing THEN BlocksCommit(file) ELSE flushed
  /\ facade' = IF tx[t].writing THEN committing(tx[t]) ELSE facade
  /\ disk' = IF tx[t].locked THEN tx[t].view ELSE disk
  /\ tx' = [tx EXCEPT ![t] = [ClosedTx EXCEPT !.failed = tx[t].failed]]
  /\ ret' = [NoRet EXCEPT !.op = "commit", !.t = t,
                          !.res = IF tx[t].locked /\ tx[t].view # disk
                                  THEN "changed" ELSE "unchanged"]
  /\ UNCHANGED <<file, overflow_checks, calls, stream>>

\* Transaction::commit statement by statement, for what other threads do in
\* between.  A write transaction goes from "open" through "flushed" and
\* "notified" to "closed"; a read transaction executes "commit" at once.
\* self.metadata.blocks.write().commit()
commit_flush(t) ==
  /\ tx[t].st = "open" /\ tx[t].writing
  /\ flushed' = BlocksCommit(file)
  /\ tx' = [tx EXCEPT ![t].st = "flushed"]
  /\ ret' = [NoRet EXCEPT !.op = "flush", !.t = t]
  /\ UNCHANGED <<disk, file, facade, overflow_checks, calls, stream>>

\* self.finishing_on.unwrap().committing(&self.metadata)
commit_committing(t) ==
  /\ tx[t].st = "flushed"
  /\ facade' = committing(tx[t])
  /\ tx' = [tx EXCEPT ![t].st = "notified"]
  /\ ret' = [NoRet EXCEPT !.op = "committing", !.t = t]
  /\ UNCHANGED <<disk, file, flushed, overflow_checks, calls, stream>>

\* self.committed = true; self.metadata.db.execute("commit")
commit_execute(t) ==
  /\ tx[t].st = "notified" \/ (tx[t].st = "open" /\ ~tx[t].writing)
  /\ disk' = IF tx[t].locked THEN tx[t].view ELSE disk
  /\ tx' = [tx EXCEPT ![t] = [ClosedTx EXCEPT !.failed = tx[t].failed]]
  /\ ret' = [NoRet EXCEPT !.op = "commit", !.t = t,
                          !.res = IF tx[t].locked /\ tx[t].view # disk
                                  THEN "changed" ELSE "unchanged"]
  /\ UNCHANGED <<file, flushed, facade, overflow_checks, calls, stream>>

\* Drop for Transaction, not committed: "rollback"
drop(t) ==
  /\ tx[t].st = "open"
  /\ tx' = [tx EXCEPT ![t] = ClosedTx]
  /\ ret' = [NoRet EXCEPT !.op = "drop", !.t = t]
  /\ UNCHANGED <<disk, file, flushed, facade, overflow_checks, calls, stream>>

(***************************************************************************)
(* Series.                                                                 *)
(***************************************************************************)
\* the `writing` test that never refuses
read_only_never(transaction) == FALSE

\* the test `if !self.writing` that opens create_series and insert_into_series
read_only(transaction) == ~transaction.writing

\* the rows of "select .. from series where name=?", as series ids
SeriesNamed(db, name) == {i \in 1..Len(db.series) : db.series[i].name = name}

MinOf(S) == CHOOSE x \in S : \A y \in S : x <= y

\* create_series_on without the lookup by name: every call inserts a row
create_series_on_always(db, can_write, generation, name, format) ==
  IF ~can_write
  THEN [res |-> "panic", db |-> db, wrote |-> FALSE, out |-> None]
  ELSE [res |-> "created", wrote |-> TRUE,
        db |-> [db EXCEPT
                  !.series = Append(@, [name |-> name, generation |-> generation,
                                        format |-> format]),
                  !.rows = Append(@, <<>>)],
        out |-> Some(Len(db.series) + 1)]

\* create_series_on that takes the new format for an existing name
create_series_on_overwrite(db, can_write, generation, name, format) ==
  LET found == SeriesNamed(db, name)
  IN IF found # {}
     THEN [res |-> "found", wrote |-> can_write,
           db |-> IF can_write
                  THEN [db EXCEPT !.series[MinOf(found)].format = format] ELSE db,
           out |-> Some(MinOf(found))]
     ELSE create_series_on_always(db, can_write, generation, name, format)

\* the body of Transaction::create_series after the `writing` test, on the
\* content db the transaction reads: what it returns (out) and leaves (db);
\* res: "found" and "mismatch" for an existing name, "created" for a new one
create_series_on(db, can_write, generation, name, format) ==
  LET found == SeriesNamed(db, name)
  IN IF found # {}
     THEN IF db.series[MinOf(found)].format # format
          THEN [res |-> "mismatch", db |-> db, wrote |-> FALSE, out |-> None]
          ELSE [res |-> "found", db |-> db, wrote |-> FALSE,
                out |-> Some(MinOf(found))]
     ELSE IF ~can_write
     THEN [res |-> "panic", db |-> db, wrote |-> FALSE, out |-> None]
     ELSE [res |-> "created", wrote |-> TRUE,
           db |-> [db EXCEPT
                     !.series = Append(@, [name |-> name,
                                           generation |-> generation,
                                           format |-> format]),
                     !.rows = Append(@, <<>>)],
           out |-> Some(Len(db.series) + 1)]

\* Transaction::create_series on the writable transaction t
create_series_result(t, name, format) ==
  create_series_on(View(t), CanWrite(t), tx[t].generation, name, format)

\* Transaction::create_series
create_series(t, name, format) ==
  /\ tx[t].st = "open"
  /\ LET r == IF ~read_only(tx[t]) THEN create_series_result(t, name, format)
              ELSE [res |-> "panic", db |-> View(t), wrote |-> FALSE, out |-> None]
     IN /\ tx' = [tx EXCEPT ![t] =
               IF r.res = "panic" THEN ClosedTx
               ELSE [@ EXCEPT !.snap = TRUE, !.view = r.db,
                              !.locked = @ \/ r.wrote]]
        /\ ret' = [NoRet EXCEPT !.op = "create_series", !.t = t, !.res = r.res,
                                !.sid = IF r.out = None THEN 0 ELSE r.out[1]]
  /\ UNCHANGED <<disk, file, flushed, facade, overflow_checks, calls, stream>>

\* Transaction::series_id
series_id(db, name) ==
  IF SeriesNamed(db, name) = {} THEN None ELSE Some(MinOf(SeriesNamed(db, name)))

\* Transaction::series_format_string
series_format_string(db, name) ==
  IF SeriesNamed(db, name) = {} THEN None
  ELSE Some(db.series[MinOf(SeriesNamed(db, name))].format)

\* a call of one of the queries series_id, series_format_string and read_series:
\* its first statement reads the transaction's snapshot, taking it if there is
\* none yet; what the call returns is the value of its operator on View(t)
query(t) ==
  /\ tx[t].st = "open"
  /\ tx' = [tx EXCEPT ![t].snap = TRUE, ![t].view = View(t)]
  /\ ret' = [NoRet EXCEPT !.op = "query", !.t = t, !.res = "ok"]
  /\ UNCHANGED <<disk, file, flushed, facade, overflow_checks, calls, stream>>

(***************************************************************************)
(* Blocks of a series.                                                     *)
(***************************************************************************)
\* struct Block, as read back from a series_blocks row
BlockOf(row) ==
  [first_timestamp |-> from_sqlite(row.first_timestamp),
   last_timestamp |-> from_sqlite(row.last_timestamp),
   offset |-> row.offset, capacity |-> row.capacity, size |-> row.size]

\* Transaction::last_block_for_series: order by first_timestamp desc limit 1
last_block_for_series(blocks, sid) ==
  LET mine == {b \in blocks : b.series_id = sid}
  IN IF mine = {} THEN None
     ELSE Some(BlockOf(CHOOSE b \in mine :
                         \A c \in mine : c.first_timestamp <= b.first_timestamp))

\* Transaction::create_new_block: the row it inserts into series_blocks
create_new_block(sid, generation, next_offset, first_timestamp, last_timestamp, initial_size, capacity) ==
  [series_id |-> sid, generation |-> generation,
   first_timestamp |-> to_sqlite(first_timestamp),
   last_timestamp |-> to_sqlite(last_timestamp),
   offset |-> next_offset,
   capacity |-> Max(capacity, initial_size), size |-> initial_size]

\* Transaction::resize_existing_block: the series_blocks table after its update
resize_existing_block(blocks, sid, generation, first_timestamp, new_last_timestamp, new_size) ==
  {IF b.series_id = sid /\ b.first_timestamp = to_sqlite(first_timestamp)
   THEN [b EXCEPT !.size = new_size,
                  !.last_timestamp = to_sqlite(new_last_timestamp),
                  !.generation = generation]
   ELSE b : b \in blocks}

\* OutOfOrder with `<` for `<=`: an equal timestamp is accepted
OutOfOrder_strict(r, p) == r < p

\* the comparison of fill_buffer: timestamp r after predecessor p is refused
OutOfOrder(r, p) == r <= p

\* the closure fill_buffer of insert_into_series, from its `while` on:
\* pulls rows from the generator (`rows`) until the buffer holds n_bytes
RECURSIVE fill_buffer(_, _, _, _, _, _, _)
fill_buffer(n_bytes, R, buffer, first_timestamp, last_timestamp, rows, consumed) ==
  IF Len(buffer) >= n_bytes
  THEN [err |-> FALSE, done |-> FALSE, buffer |-> buffer, rows |-> rows,
        first |-> first_timestamp, last |-> last_timestamp, consumed |-> consumed]
  ELSE IF rows = <<>>
  THEN [err |-> FALSE, done |-> TRUE, buffer |-> buffer, rows |-> rows,
        first |-> first_timestamp, last |-> last_timestamp, consumed |-> consumed]
  ELSE LET r == Head(rows)
       IN IF last_timestamp # None /\ OutOfOrder(r.ts, last_timestamp[1])
          THEN [err |-> TRUE, done |-> FALSE, buffer |-> buffer, rows |-> rows,
                first |-> first_timestamp, last |-> last_timestamp,
                consumed |-> consumed + 1]
          ELSE fill_buffer(n_bytes, R, buffer \o RowBytes(r, R),
                           IF first_timestamp = None THEN Some(r.ts)
                           ELSE first_timestamp,
                           Some(r.ts), Tail(rows), consumed + 1)

\* SeedLastTimestamp that forgets the tail block: every fill starts from None
SeedLastTimestamp_none(last_block) == None

\* what fill_buffer starts last_timestamp from: the tail block's last timestamp
SeedLastTimestamp(last_block) ==
  IF last_block = None THEN None ELSE Some(last_block[1].last_timestamp)

\* fits_in_block: (capacity - size) % preferred_block_size, in wrapping u64
fits_in_block(last_block, preferred) ==
  IF last_block = None THEN 0
  ELSE ((last_block[1].capacity - last_block[1].size) % U64Modulus) % preferred

(***************************************************************************)
(* insert_into_series: the `while !done` loop.  s is the state of the call: *)
(* the series_blocks table as the transaction sees it, the block file, the  *)
(* allocation cursor, what the generator has left, and how the call ends    *)
(* ("" while it runs).  can_write: whether the first writing statement gets *)
(* the write lock.                                                          *)
(***************************************************************************)
RECURSIVE insert_loop(_, _, _, _, _, _)
insert_loop(s, sid, format, generation, can_write, checks) ==
  IF s.done THEN [s EXCEPT !.res = "ok"]
  ELSE
  LET last_block == last_block_for_series(s.blocks, sid)
      preferred == preferred_block_size(format)
      R == row_size(format)
      underflow == last_block # None /\ last_block[1].size > last_block[1].capacity
      fits == fits_in_block(last_block, preferred)
      n_bytes == IF fits = 0 THEN preferred ELSE fits
      f == fill_buffer(n_bytes, R, <<>>, None, SeedLastTimestamp(last_block),
                       s.rows, s.consumed)
      pulled == [s EXCEPT !.rows = f.rows, !.consumed = f.consumed, !.done = f.done,
                          !.overflowed = @ \/ underflow]
  IN IF underflow /\ checks THEN [s EXCEPT !.res = "panic", !.overflowed = TRUE]
     ELSE IF f.err THEN [pulled EXCEPT !.res = "order"]
     ELSE IF f.first = None THEN [pulled EXCEPT !.res = "ok"]
     ELSE IF ~can_write THEN [pulled EXCEPT !.res = "panic"]
     ELSE IF fits = 0
     THEN \* new block
       LET row == create_new_block(sid, generation, s.next_offset, f.first[1],
                                   f.last[1], Len(f.buffer), preferred)
       IN IF \E b \in s.blocks : b.series_id = sid
                                  /\ b.first_timestamp = row.first_timestamp
          THEN [pulled EXCEPT !.res = "panic"]
          ELSE insert_loop(
                 [pulled EXCEPT
                    !.blocks = @ \cup {row},
                    !.next_offset = s.next_offset + row.capacity,
                    !.file = BlocksWrite(@, row.offset, f.buffer),
                    !.wrote = TRUE, !.rounds = @ + 1,
                    !.top = Max(@, Max(row.offset + row.capacity,
                                       row.offset + Len(f.buffer)))],
                 sid, format, generation, can_write, checks)
     ELSE \* fill the existing block
       LET new_block == last_block[1]
       IN insert_loop(
            [pulled EXCEPT
               !.blocks = resize_existing_block(@, sid, generation,
                            new_block.first_timestamp, f.last[1],
                            new_block.size + Len(f.buffer)),
               !.file = BlocksWrite(@, new_block.offset + new_block.size, f.buffer),
               !.wrote = TRUE, !.rounds = @ + 1,
               !.top = Max(@, new_block.offset + new_block.size + Len(f.buffer))],
            sid, format, generation, can_write, checks)

\* Savepoint_drop that never rolls back
Savepoint_drop_keep(done, saved, current) == current

\* Drop for Savepoint: "rollback to savepoint sp" unless the savepoint is done
Savepoint_drop(done, saved, current) == IF ~done THEN saved ELSE current

\* Transaction::series_format: the format of the series, None if there is no row
series_format(db, sid) ==
  IF sid \in 1..Len(db.series) THEN Some(db.series[sid].format) ELSE None

\* insert_into_series on a writable transaction: how the call ends
insert_result(t, sid, rows, checks) ==
  LET db == View(t)
      format == series_format(db, sid)
      start == [blocks |-> db.blocks, file |-> file,
                next_offset |-> tx[t].next_offset, rows |-> rows, done |-> FALSE,
                consumed |-> 0, rounds |-> 0, wrote |-> FALSE, top |-> 0,
                overflowed |-> FALSE,
                res |-> ""]
  IN IF format = None THEN [start EXCEPT !.res = "panic"]
     ELSE insert_loop(start, sid, format[1], tx[t].generation, CanWrite(t), checks)

\* the overflow-checks settings the build may have, as far as known
Builds == IF overflow_checks = "unset" THEN BOOLEAN ELSE {overflow_checks = "on"}

\* Transaction::insert_into_series
insert_into_series(t, sid, rows) ==
  /\ tx[t].st = "open"
  /\ calls < MaxCalls
  /\ calls' = calls + 1
  /\ IF read_only(tx[t])
     THEN /\ ret' = [NoRet EXCEPT !.op = "insert", !.t = t, !.sid = sid,
                                  !.res = "readonly"]
          /\ UNCHANGED <<tx, file, overflow_checks>>
     ELSE LET db == View(t)
              wrapped == insert_result(t, sid, rows, FALSE)
          IN \E checks \in (IF wrapped.overflowed THEN Builds ELSE {FALSE}) :
             LET r == IF checks THEN insert_result(t, sid, rows, TRUE) ELSE wrapped
                 after == [db EXCEPT !.blocks = r.blocks,
                                     !.rows = [i \in DOMAIN @ |->
                                                 IF i = sid THEN @[i] \o rows ELSE @[i]]]
             IN /\ r.top <= FileSize
                /\ r.next_offset <= FileSize
                /\ file' = r.file
                /\ overflow_checks' = IF r.overflowed
                                      THEN (IF checks THEN "on" ELSE "off")
                                      ELSE overflow_checks
                /\ tx' = [tx EXCEPT ![t] =
                     IF r.res = "panic" THEN ClosedTx
                     ELSE [@ EXCEPT !.snap = TRUE,
                                    !.view = Savepoint_drop(r.res = "ok", db, after),
                                    !.locked = @ \/ r.wrote,
                                    !.next_offset = r.next_offset,
                                    !.failed = @ \/ r.res # "ok"]]
                /\ ret' = [NoRet EXCEPT !.op = "insert", !.t = t, !.sid = sid,
                                        !.res = r.res, !.consumed = r.consumed,
                                        !.rounds = r.rounds]
  /\ UNCHANGED <<disk, flushed, facade, stream>>

(***************************************************************************)
(* read_series.                                                            *)
(***************************************************************************)
RECURSIVE SortedByFirst(_)
SortedByFirst(S) ==
  IF S = {} THEN <<>>
  ELSE LET b == CHOOSE x \in S : \A y \in S : x.first_timestamp <= y.first_timestamp
       IN <<b>> \o SortedByFirst(S \ {b})

\* Transaction::blocks_for_range.  The query has no "order by"; SQLite walks the
\* primary key (series_id, first_timestamp) or the table in rowid order, and a
\* series' rows are inserted in first_timestamp order, so both give this order.
blocks_for_range(blocks, sid, first_ts, last_ts) ==
  LET rows == SortedByFirst(
        {b \in blocks : /\ b.series_id = sid
                        /\ to_sqlite(last_ts) >= b.first_timestamp
                        /\ b.last_timestamp >= to_sqlite(first_ts)})
  IN [i \in 1..Len(rows) |-> BlockOf(rows[i])]

\* block_data.chunks(row_size)
RECURSIVE chunks(_, _)
chunks(data, n) ==
  IF Len(data) = 0 THEN <<>>
  ELSE IF Len(data) <= n THEN <<data>>
  ELSE <<SubSeq(data, 1, n)>> \o chunks(SubSeq(data, n + 1, Len(data)), n)

\* the loop over the samples of one block; acc: the calls of `out` so far
RECURSIVE read_samples(_, _, _, _)
read_samples(samples, first_timestamp, last_timestamp, acc) ==
  IF samples = <<>> THEN [done |-> FALSE, out |-> acc]
  ELSE LET sample == Head(samples)
           t == BigEndianRead(sample)
       IN IF t >= first_timestamp
          THEN IF t > last_timestamp THEN [done |-> TRUE, out |-> acc]
               ELSE read_samples(Tail(samples), first_timestamp, last_timestamp,
                      Append(acc, [ts |-> t,
                                   payload |-> SubSeq(sample, TsBytes + 1, Len(sample))]))
          ELSE read_samples(Tail(samples), first_timestamp, last_timestamp, acc)

\* the loop over the blocks
RECURSIVE read_blocks(_, _, _, _, _, _)
read_blocks(blocks, f, R, first_timestamp, last_timestamp, acc) ==
  IF blocks = <<>> THEN acc
  ELSE LET block == Head(blocks)
           block_data == BlocksRead(f, block.offset, block.size)
           r == read_samples(chunks(block_data, R), first_timestamp,
                             last_timestamp, acc)
       IN IF r.done THEN r.out
          ELSE read_blocks(Tail(blocks), f, R, first_timestamp, last_timestamp, r.out)

\* Transaction::read_series: the sequence of calls of `out`
read_series(db, f, sid, first_timestamp, last_timestamp) ==
  LET blocks == blocks_for_range(db.blocks, sid, first_timestamp, last_timestamp)
  IN IF blocks = <<>> THEN <<>>
     ELSE read_blocks(blocks, f, row_size(series_format(db, sid)[1]),
                      first_timestamp, last_timestamp, <<>>)

\* the ranges read_series is called with
ReadRanges == {<<0, U64Max>>, <<0, 0>>, <<1, U64Max>>, <<1, 0>>}

(***************************************************************************)
(* The specification.                                                      *)
(***************************************************************************)
SeriesIds == 1..Cardinality(Names)

\* the (name, format) pairs create_series is called with
CreateInputs == {<<"a", "f3">>, <<"a", "f4">>, <<"b", "f2">>}

Next ==
  \/ \E t \in Txns : as_read_transaction(t)
  \/ \E t \in Txns : as_write_transaction(t)
  \/ \E t \in Txns : commit(t)
  \/ \E t \in Txns : drop(t)
  \/ \E t \in Txns, c \in CreateInputs : create_series(t, c[1], c[2])
  \/ \E t \in Txns : query(t)
  \/ \E t \in Txns, sid \in SeriesIds, rows \in RowSeqs : insert_into_series(t, sid, rows)

Spec == Init /\ [][Next]_vars

(***************************************************************************)
(* The same program with commit() taken statement by statement.            *)
(***************************************************************************)
NextCommit ==
  \/ \E t \in Txns : as_read_transaction(t)
  \/ \E t \in Txns : as_write_transaction(t)
  \/ \E t \in Txns : commit_flush(t)
  \/ \E t \in Txns : commit_committing(t)
  \/ \E t \in Txns : commit_execute(t)
  \/ \E t \in Txns : drop(t)
  \/ \E t \in Txns, c \in CreateInputs : create_series(t, c[1], c[2])
  \/ \E t \in Txns : query(t)
  \/ \E t \in Txns, sid \in SeriesIds, rows \in RowSeqs : insert_into_series(t, sid, rows)

SpecCommit == Init /\ [][NextCommit]_vars

(***************************************************************************)
(* Reading keys from a text stream (formatted.rs).  A line is its key and  *)
(* its format: add_from_stream_with_fmt reads the format from the line,    *)
(* add_from_stream is given one format for every line.  db is a reader of  *)
(* the committed database: for each key the format of its first record, or *)
(* None.                                                                   *)
(***************************************************************************)
Lines == Names \X Formats

Inputs == UNION {[1..n -> Lines] : n \in 1..MaxLines}

\* db.get(&key).next() with record.format(): None when the key has no record
Recorded == [Names -> {None} \cup {Some(f) : f \in Formats}]

InitStream ==
  /\ disk = EmptyDb
  /\ file = [i \in 0..(FileSize - 1) |-> 0]
  /\ flushed = file
  /\ facade = [next_offset |-> 0, generation |-> 0]
  /\ tx = [t \in Txns |-> IdleTx]
  /\ ret = NoRet
  /\ overflow_checks = "unset"
  /\ calls = 0
  /\ \E fn \in {"add_from_stream", "add_from_stream_with_fmt"}, nocheck \in BOOLEAN, recorded \in Recorded, input \in Inputs :
       /\ fn = "add_from_stream" => \A i \in DOMAIN input : input[i][2] = input[1][2]
       /\ stream = [fn |-> fn, nocheck |-> nocheck, recorded |-> recorded, input |-> input, line |-> 0, key_format_identified |-> "", added |-> <<>>, result |-> "running"]

\* the type check is made for this line: !nocheck && key_format_identified != key
format_checked(s, key) == ~s.nocheck /\ s.key_format_identified # key

\* one round of the while loop over input.read_line, for the line (key, format)
stream_round(s, key, format) ==
  LET record == s.recorded[key]
  IN IF format_checked(s, key) /\ record # None /\ record[1] # format
     THEN [s EXCEPT !.line = @ + 1, !.result = "HeterogeneousFormats"]
     ELSE [s EXCEPT !.line = @ + 1,
                    !.key_format_identified = IF format_checked(s, key) THEN key ELSE @,
                    !.added = Append(@, <<key, format>>)]

\* read_line returned 0: the loop ends and the function returns Ok(())
stream_end(s) == [s EXCEPT !.result = "Ok"]

stream_step(s) ==
  IF s.line = Len(s.input) THEN stream_end(s)
  ELSE stream_round(s, s.input[s.line + 1][1], s.input[s.line + 1][2])

\* add_from_stream, one read_line at a time
add_from_stream ==
  /\ stream.fn = "add_from_stream" /\ stream.result = "running"
  /\ stream' = stream_step(stream)
  /\ UNCHANGED <<disk, file, flushed, facade, tx, ret, overflow_checks, calls>>

\* add_from_stream_with_fmt, one read_line at a time
add_from_stream_with_fmt ==
  /\ stream.fn = "add_from_stream_with_fmt" /\ stream.result = "running"
  /\ stream' = stream_step(stream)
  /\ UNCHANGED <<disk, file, flushed, facade, tx, ret, overflow_checks, calls>>

NextStream == add_from_stream \/ add_from_stream_with_fmt

SpecStream == InitStream /\ [][NextStream]_vars

(***************************************************************************)
(* The Timestamp conversions on their own: every u64 through to_sqlite,    *)
(* every i64 through from_sqlite.                                          *)
(***************************************************************************)
\* a call Timestamp(x).to_sqlite()
call_to_sqlite(x) ==
  /\ ret' = [NoRet EXCEPT !.op = "to_sqlite", !.arg = x, !.val = to_sqlite(x)]
  /\ UNCHANGED <<disk, file, flushed, facade, tx, overflow_checks, calls, stream>>

\* a call Timestamp::from_sqlite(v)
call_from_sqlite(v) ==
  /\ ret' = [NoRet EXCEPT !.op = "from_sqlite", !.arg = v, !.val = from_sqlite(v)]
  /\ UNCHANGED <<disk, file, flushed, facade, tx, overflow_checks, calls, stream>>

NextTs ==
  \/ \E x \in 0..U64Max : call_to_sqlite(x)
  \/ \E v \in I64Min..I64Max : call_from_sqlite(v)

SpecTs == Init /\ [][NextTs]_vars

(***************************************************************************)
(* What the claims are stated in.                                          *)
(***************************************************************************)
\* every content of the metadata some transaction can read: the committed one
\* and the snapshot or working copy of every open transaction
AllViews == {disk} \cup {tx[t].view : t \in {u \in Txns : tx[u].st = "open" /\ tx[u].snap}}

\* the rows accepted into series sid with lo <= ts <= hi, in insertion order, as
\* the output callback should see them
Expected(db, sid, lo, hi) ==
  LET R == row_size(db.series[sid].format)
      kept == SelectSeq(db.rows[sid], LAMBDA r : lo <= r.ts /\ r.ts <= hi)
  IN [i \in 1..Len(kept) |-> Emitted(kept[i], R)]

\* the last timestamp accepted into series sid
StoredLast(db, sid) ==
  IF Len(db.rows[sid]) = 0 THEN None ELSE Some(db.rows[sid][Len(db.rows[sid])].ts)

\* row i of a call is not strictly greater than the stored last timestamp or
\* than a row produced earlier in the call
Offends(rows, i, stored) ==
  \/ stored # None /\ rows[i].ts <= stored[1]
  \/ \E j \in 1..(i - 1) : rows[i].ts <= rows[j].ts

Writers == {t \in Txns : tx[t].st = "open" /\ tx[t].writing}

(***************************************************************************)
(* The claims.                                                             *)
(***************************************************************************)
\* C1: every series_blocks row has size <= capacity and size a multiple of
\* the row size of its series.
C1_SizeWithinCapacity ==
  \A db \in AllViews : \A b \in db.blocks :
    /\ b.size <= b.capacity
    /\ b.size % row_size(db.series[b.series_id].format) = 0

\* C2: read_series over [0, u64::MAX] on the committed content returns exactly
\* the rows inserted into the series, in insertion order.
C2_ReadReturnsInserted ==
  \A sid \in 1..Len(disk.series) :
    read_series(disk, file, sid, 0, U64Max) = Expected(disk, sid, 0, U64Max)

\* C3: the byte ranges [offset, offset+capacity) of two distinct series_blocks
\* rows do not overlap.
C3_BlocksDisjoint ==
  \A db \in AllViews : \A b, c \in db.blocks :
    b # c => (b.offset + b.capacity <= c.offset \/ c.offset + c.capacity <= b.offset)

\* C4: a call of insert_into_series on a writable transaction ends with the
\* ordering error if the generator has produced an offending timestamp, and
\* only if its input has one; whatever the state, the series and the input.
C4_OrderError ==
  \A t \in Writers : \A sid \in 1..Len(View(t).series) :
    \A rows \in RowSeqs, checks \in BOOLEAN :
      LET r == insert_result(t, sid, rows, checks)
          bad == {i \in 1..Len(rows) : Offends(rows, i, StoredLast(View(t), sid))}
      IN /\ (\E i \in bad : i <= r.consumed) => r.res = "order"
         /\ r.res = "order" => bad # {}

\* a call has ended with the ordering error in a later round than its first
C4_Witness == ret.op = "insert" /\ ret.res = "order" /\ ret.rounds >= 1

\* C5: when insert_into_series returns an error after earlier rounds of the
\* call wrote blocks, series_blocks is as at the start of the call and
\* read_series of that series returns what it returned before the call.
C5_ErrorRestores ==
  [][(ret'.op = "insert" /\ ret'.res = "order" /\ ret'.rounds >= 1) =>
       /\ tx'[ret'.t].view.blocks = View(ret'.t).blocks
       /\ read_series(tx'[ret'.t].view, file', ret'.sid, 0, U64Max)
            = read_series(View(ret'.t), file, ret'.sid, 0, U64Max)]_vars

\* C6 as stated: once insert_into_series has returned an error in a write
\* transaction, no step of that transaction changes the committed content.
C6_ErrorAborts ==
  [][\A t \in Writers : tx[t].failed => disk' = disk]_vars

\* C6 as amended: an error of insert_into_series rolls back that call only: the
\* transaction stays open and sees series and series_blocks as before the call,
\* and a commit of a transaction that wrote makes what it sees the committed
\* content.
C6_ErrorRollsBackCallOnly ==
  [][/\ (ret'.op = "insert" /\ ret'.res = "order") =>
          /\ tx'[ret'.t].st = "open"
          /\ tx'[ret'.t].view = View(ret'.t)
     /\ (ret'.op = "commit" /\ tx[ret'.t].locked) => disk' = tx[ret'.t].view]_vars

\* a transaction in which insert_into_series had failed has committed changes
C6_Witness == ret.op = "commit" /\ ret.res = "changed" /\ tx[ret.t].failed

\* C7: what a read transaction reads is the content that was committed when
\* the transaction began.
C7_SnapshotAtBegin ==
  \A t \in Txns : (tx[t].st = "open" /\ ~tx[t].writing /\ tx[t].snap) =>
    /\ \A name \in Names :
         /\ series_id(tx[t].view, name) = series_id(tx[t].atBegin, name)
         /\ series_format_string(tx[t].view, name)
              = series_format_string(tx[t].atBegin, name)
    /\ \A sid \in SeriesIds, range \in ReadRanges :
         read_series(tx[t].view, file, sid, range[1], range[2])
           = read_series(tx[t].atBegin, file, sid, range[1], range[2])

\* C8: at most one write transaction is open at a time.
C8_SingleWriter == Cardinality(Writers) <= 1

\* C9: the blocks of a series have first_timestamp <= last_timestamp and
\* pairwise disjoint timestamp ranges, so that in first_timestamp order each
\* block begins after the one before it ends.
C9_TimestampRanges ==
  \A db \in AllViews : \A b \in db.blocks :
    /\ from_sqlite(b.first_timestamp) <= from_sqlite(b.last_timestamp)
    /\ \A c \in db.blocks :
         (c # b /\ c.series_id = b.series_id) =>
           \/ from_sqlite(b.last_timestamp) < from_sqlite(c.first_timestamp)
           \/ from_sqlite(c.last_timestamp) < from_sqlite(b.first_timestamp)

\* a series has two committed blocks, the second beginning after the first ends
C9_Witness ==
  \E b, c \in disk.blocks :
    /\ b # c /\ b.series_id = c.series_id
    /\ from_sqlite(b.last_timestamp) < from_sqlite(c.first_timestamp)

\* C10: read_series(id, first_ts, last_ts) emits exactly the accepted rows of
\* the series with first_ts <= ts <= last_ts, in order, in every view.
C10_ReadRange ==
  \A db \in AllViews : \A sid \in 1..Len(db.series) : \A range \in ReadRanges :
    read_series(db, file, sid, range[1], range[2])
      = Expected(db, sid, range[1], range[2])

\* C11: no call of a write transaction short of commit(), and not its disposal
\* without commit(), changes the committed series and series_blocks tables or
\* what a later transaction reads from the committed series.
C11_RollbackNeutral ==
  [][(ret'.op \in {"create_series", "insert", "drop"} /\ tx[ret'.t].writing) =>
       /\ disk' = disk
       /\ \A sid \in 1..Len(disk.series), range \in ReadRanges :
            read_series(disk, file', sid, range[1], range[2])
              = read_series(disk, file, sid, range[1], range[2])]_vars

\* the end of the allocated part of the block file: the maximum of
\* offset + capacity over the rows of series_blocks, 0 when there is none
MaxEnd(blocks) ==
  IF blocks = {} THEN 0
  ELSE LET ends == {b.offset + b.capacity : b \in blocks}
       IN CHOOSE e \in ends : \A x \in ends : x <= e

\* C12: after the commit of a write transaction, the facade's next_offset is
\* the maximum of offset + capacity over the committed series_blocks rows.
C12_NextOffsetIsMax ==
  [][(ret'.op = "commit" /\ tx[ret'.t].writing) =>
       facade'.next_offset = MaxEnd(disk'.blocks)]_vars

\* the generations a write transaction can have
Generations == 1..(MaxTx + 1)

\* C13: when create_series(name, format) returns an id, a second call with the
\* same name and format, in the same or in a later write transaction, returns
\* the same id, changes nothing, and the name has exactly one series row.
C13_CreateIdempotent ==
  \A t \in Writers : \A c \in CreateInputs :
    LET r1 == create_series_result(t, c[1], c[2])
    IN r1.out # None =>
         \A g \in Generations :
           LET r2 == create_series_on(r1.db, TRUE, g, c[1], c[2])
           IN /\ r2.out = r1.out
              /\ r2.db = r1.db
              /\ Cardinality(SeriesNamed(r2.db, c[1])) = 1

\* create_series has returned the id of a series that existed already
C13_Witness == ret.op = "create_series" /\ ret.res = "found" /\ ret.sid # 0

\* what transaction t reads after the step
ViewAfter(t) == IF tx'[t].snap THEN tx'[t].view ELSE disk'

\* C14: a series' format is the one of the create_series call that created
\* it and never changes: create_series for an existing name with another
\* format returns None and modifies nothing, a creating call stores the format
\* it is given, and no step changes the format a name has, neither in the
\* committed content nor in what an open transaction reads.
C14_FormatSetOnce ==
  [][/\ \A t \in Writers : \A c \in CreateInputs :
          LET r == create_series_result(t, c[1], c[2])
              old == series_format_string(View(t), c[1])
          IN /\ (old # None /\ old # Some(c[2])) => (r.out = None /\ r.db = View(t))
             /\ r.res # "panic" =>
                  \A name \in Names :
                    series_format_string(r.db, name) =
                      IF name = c[1] /\ old = None THEN Some(c[2])
                      ELSE series_format_string(View(t), name)
     /\ \A name \in Names :
          /\ series_format_string(disk, name) # None =>
               series_format_string(disk', name) = series_format_string(disk, name)
          /\ \A t \in Txns :
               (tx[t].st = "open" /\ tx'[t].st = "open"
                 /\ series_format_string(View(t), name) # None) =>
                 series_format_string(ViewAfter(t), name)
                   = series_format_string(View(t), name)]_vars

\* create_series has returned None for an existing name with another format
C14_Witness == ret.op = "create_series" /\ ret.res = "mismatch" /\ ret.sid = 0

\* C15: to_sqlite maps u64 onto i64 with inverse from_sqlite, keeps the
\* order, and maps 0 to i64::MIN and u64::MAX to i64::MAX.
C15_TimestampBijection ==
  /\ ret.op = "to_sqlite" =>
       /\ ret.val \in I64Min..I64Max
       /\ from_sqlite(ret.val) = ret.arg
       /\ \A y \in 0..U64Max : (ret.arg < y) <=> (ret.val < to_sqlite(y))
       /\ ret.arg = 0 => ret.val = I64Min
       /\ ret.arg = U64Max => ret.val = I64Max
  /\ ret.op = "from_sqlite" =>
       /\ ret.val \in 0..U64Max
       /\ to_sqlite(ret.val) = ret.arg

\* u64::MAX has gone through to_sqlite
C15_Witness == ret.op = "to_sqlite" /\ ret.arg = U64Max /\ ret.val = I64Max

\* C16: every generation stored in the committed series and series_blocks
\* rows is at most what last_generation() returns on the committed content.
C16_LastGeneration ==
  /\ \A i \in 1..Len(disk.series) : disk.series[i].generation <= last_generation(disk)
  /\ \A b \in disk.blocks : b.generation <= last_generation(disk)

\* C17: on a read transaction create_series panics and insert_into_series
\* returns its error without pulling a row from the generator, and neither
\* changes the committed content, what the transaction reads, the allocation
\* cursors or the block file.
C17_ReadOnlyRefused ==
  [][(ret'.op \in {"create_series", "insert"}
        /\ tx[ret'.t].st = "open" /\ ~tx[ret'.t].writing) =>
       /\ ret'.op = "create_series" => (ret'.res = "panic" /\ tx'[ret'.t].st = "closed")
       /\ ret'.op = "insert" =>
            (ret'.res = "readonly" /\ ret'.consumed = 0 /\ tx' = tx)
       /\ disk' = disk /\ file' = file /\ facade' = facade
       /\ \A u \in Txns \ {ret'.t} : tx'[u] = tx[u]]_vars

\* insert_into_series has refused a read transaction
C17_Witness ==
  ret.op = "insert" /\ ret.res = "readonly" /\ tx[ret.t].st = "open" /\ ~tx[ret.t].writing

\* the number of bytes a call has added to the block that was the tail of
\* series sid before the call (0 when there was none)
TailGrowth(before, after, sid) ==
  LET tail == last_block_for_series(before, sid)
  IN IF tail = None THEN 0
     ELSE LET row == CHOOSE b \in after :
                       /\ b.series_id = sid
                       /\ from_sqlite(b.first_timestamp) = tail[1].first_timestamp
          IN row.size - tail[1].size

\* C18: a successful insert_into_series adds at most floor(free / R) rows to
\* the tail block, none when the block is absent or free < R, and the rows
\* beyond that go to newly allocated blocks.
C18_TailFill ==
  \A t \in Writers : \A sid \in 1..Len(View(t).series) :
    \A rows \in RowSeqs, checks \in Builds :
      LET db == View(t)
          R == row_size(db.series[sid].format)
          tail == last_block_for_series(db.blocks, sid)
          free == IF tail = None THEN 0 ELSE tail[1].capacity - tail[1].size
          room == IF free >= R THEN (free \div R) * R ELSE 0
          r == insert_result(t, sid, rows, checks)
          growth == TailGrowth(db.blocks, r.blocks, sid)
      IN r.res = "ok" =>
           /\ growth <= room
           /\ Len(rows) * R > room =>
                Cardinality({b \in r.blocks : b.series_id = sid})
                  > Cardinality({b \in db.blocks : b.series_id = sid})

\* C19: a call of insert_into_series on series A changes block-file bytes
\* only inside [offset, offset + capacity) of blocks of A, and for every other
\* series B the bytes [offset, offset + size) of its blocks and the result of
\* read_series are as before the call.
C19_WritesOwnBlocks ==
  [][(ret'.op = "insert" /\ tx[ret'.t].st = "open" /\ tx[ret'.t].writing) =>
       LET t == ret'.t
           A == ret'.sid
           before == View(t)
       IN /\ ret'.res = "ok" =>
               \A i \in DOMAIN file :
                 file'[i] # file[i] =>
                   \E b \in tx'[t].view.blocks :
                     /\ b.series_id = A
                     /\ b.offset <= i /\ i < b.offset + b.capacity
          /\ \A B \in (1..Len(before.series)) \ {A} :
               /\ \A b \in before.blocks :
                    b.series_id = B =>
                      BlocksRead(file', b.offset, b.size) = BlocksRead(file, b.offset, b.size)
               /\ read_series(before, file', B, 0, U64Max)
                    = read_series(before, file, B, 0, U64Max)]_vars


(***************************************************************************)
(* C20: a write transaction's commit flushes the block file, then tells    *)
(* the facade, then commits the metadata; so at the metadata commit the    *)
(* facade has been told, every row the committed metadata names lies at    *)
(* bytes the block file has flushed, and a transaction beginning then      *)
(* reads exactly the committed rows of every series, from the flushed      *)
(* bytes as from the current ones.                                         *)
(***************************************************************************)
C20_CommitOrder ==
  [][(ret'.op = "commit" /\ tx[ret'.t].writing) =>
       /\ tx[ret'.t].st = "notified"
       /\ \A b \in disk'.blocks :
            BlocksRead(flushed, b.offset, b.size) = BlocksRead(file, b.offset, b.size)
       /\ \A sid \in 1..Len(disk'.series) :
            /\ read_series(disk', flushed', sid, 0, U64Max) = Expected(disk', sid, 0, U64Max)
            /\ read_series(disk', file', sid, 0, U64Max) = Expected(disk', sid, 0, U64Max)]_vars

(***************************************************************************)
(* C21: with nocheck = false, a line whose format differs from the format  *)
(* recorded in the database for its key ends add_from_stream and           *)
(* add_from_stream_with_fmt with HeterogeneousFormats, and add_record is   *)
(* not called for that line; so for every line, the one after a line of    *)
(* the same key included.                                                  *)
(***************************************************************************)
C21_HeterogeneousFormats ==
  [][(stream.result = "running" /\ stream.line < Len(stream.input)) =>
       LET key == stream.input[stream.line + 1][1]
           format == stream.input[stream.line + 1][2]
           record == stream.recorded[key]
       IN (~stream.nocheck /\ record # None /\ record[1] # format) =>
            /\ stream'.result = "HeterogeneousFormats"
            /\ stream'.added = stream.added]_vars

(***************************************************************************)
(* C22: insert_into_series into a series of a write transaction ends for   *)
(* every finite generator: every round of its loop that goes on to another *)
(* has taken at least one row, no more rows are taken than the generator   *)
(* has, and the call returns Ok with the savepoint released or Err with    *)
(* the savepoint rolled back (the transaction sees what it saw before).    *)
(***************************************************************************)
C22_InsertTerminates ==
  [][(/\ ret'.op = "insert" /\ ~read_only(tx[ret'.t])
      /\ ret'.sid \in 1..Len(View(ret'.t).series)) =>
       /\ ret'.rounds <= ret'.consumed
       /\ ret'.consumed <= MaxRows
       /\ ret'.res \in {"ok", "order"}
       /\ tx'[ret'.t].st = "open"
       /\ ret'.res = "order" => tx'[ret'.t].view = View(ret'.t)]_vars

====
